---------------------------- MODULE Spec2Model ----------------------------
(***************************************************************************)
(* Model of the listing-export parser of RealEstate_Sales_Parser2.py:      *)
(* parse_data (record splitter, field extractor, contact/agent extractor)  *)
(* and the regular expressions it is built from.  Text is a TLA+ string;   *)
(* the regular expressions of the source are kept as syntax trees and run  *)
(* by a backtracking matcher that follows the priority order of Python's   *)
(* re module (leftmost match, greedy / lazy repetition, ordered            *)
(* alternation).                                                           *)
(***************************************************************************)
EXTENDS Integers, Sequences, FiniteSets, TLC

(***************************************************************************)
(* Characters and character classes of the re module.                      *)
(***************************************************************************)
Digit == {"0", "1", "2", "3", "4", "5", "6", "7", "8", "9"}

Lower == {"a", "b", "c", "d", "e", "f", "g", "h", "i", "j", "k", "l", "m",
          "n", "o", "p", "q", "r", "s", "t", "u", "v", "w", "x", "y", "z"}

Upper == {"A", "B", "C", "D", "E", "F", "G", "H", "I", "J", "K", "L", "M",
          "N", "O", "P", "Q", "R", "S", "T", "U", "V", "W", "X", "Y", "Z"}

\* \s of a str pattern, and the characters str.strip() removes
Whitespace == {" ", "\t", "\n", "\r", "\f"}

\* \w of a str pattern
Word == Digit \cup Lower \cup Upper \cup {"_"}

(***************************************************************************)
(* Regular expression syntax trees.                                        *)
(***************************************************************************)
Lit(str)      == [t |-> "lit", s |-> str]
In(chars)     == [t |-> "set", neg |-> FALSE, chars |-> chars]
NotIn(chars)  == [t |-> "set", neg |-> TRUE, chars |-> chars]
Cat(rs)       == [t |-> "seq", rs |-> rs]
Or(rs)        == [t |-> "alt", rs |-> rs]
Group(n, r)   == [t |-> "grp", n |-> n, r |-> r]
\* max = 0 stands for "no upper limit"
Star(r)       == [t |-> "rep", r |-> r, min |-> 0, max |-> 0, lazy |-> FALSE]
Plus(r)       == [t |-> "rep", r |-> r, min |-> 1, max |-> 0, lazy |-> FALSE]
Opt(r)        == [t |-> "rep", r |-> r, min |-> 0, max |-> 1, lazy |-> FALSE]
LazyStar(r)   == [t |-> "rep", r |-> r, min |-> 0, max |-> 0, lazy |-> TRUE]
Ahead(r)      == [t |-> "look", r |-> r]
Bol           == [t |-> "bol"]
Eol           == [t |-> "eol"]

\* [^\n] where the source has [\s\S]: a remark is cut at its first line break
AnyChar_OneLine == NotIn({"\n"})

AnyChar == NotIn({})           \* [\s\S]
Dot     == NotIn({"\n"})       \* .  without re.DOTALL
WS      == In(Whitespace)      \* \s
D       == In(Digit)           \* \d

(***************************************************************************)
(* The matcher.  A match state is the position of the next character to    *)
(* read and the spans of capture groups 1 and 2 (<<0, 0>> when the group   *)
(* has not taken part; a span is <<first, last + 1>>).  M returns the      *)
(* states in which r can end when started in st, in the order in which a   *)
(* backtracking engine tries them; multiline is the re.MULTILINE flag.     *)
(***************************************************************************)
Start(i) == [pos |-> i, g |-> << <<0, 0>>, <<0, 0>> >>]

CharAt(s, i) == SubSeq(s, i, i)

SetGroup(sts, n, from) ==
    [i \in 1..Len(sts) |-> [sts[i] EXCEPT !.g[n] = <<from, sts[i].pos>>]]

\* the concatenation of seqs[lo], ..., seqs[hi]
RECURSIVE Flatten(_, _, _)
Flatten(seqs, lo, hi) ==
    IF lo > hi THEN <<>>
    ELSE IF lo = hi THEN seqs[lo]
    ELSE LET mid == (lo + hi) \div 2
         IN  Flatten(seqs, lo, mid) \o Flatten(seqs, mid + 1, hi)

\* the least and the greatest element of a set of numbers
Min(S) == CHOOSE i \in S : \A j \in S : i <= j

Max(S) == CHOOSE i \in S : \A j \in S : i >= j

\* the character at position i of s is one the class r accepts
Accepts(r, s, i) == (CharAt(s, i) \in r.chars) # r.neg

RunTo(stops, s, pos) ==
    IF stops = {} THEN Len(s) + 1 - pos ELSE Min(stops) - pos

\* the number of consecutive characters of s from position pos on that the
\* class r accepts
Run(r, s, pos) == RunTo({i \in pos..Len(s) : ~Accepts(r, s, i)}, s, pos)

RECURSIVE M(_, _, _, _)
RECURSIVE MSeq(_, _, _, _, _)
RECURSIVE MRep(_, _, _, _, _)
RECURSIVE MRepEach(_, _, _, _, _)

\* r continued from each state of sts, in the order of sts
MAll(r, s, sts, multiline) ==
    Flatten([i \in 1..Len(sts) |-> M(r, s, sts[i], multiline)], 1, Len(sts))

MSeq(rs, k, s, sts, multiline) ==
    IF k > Len(rs) \/ sts = <<>> THEN sts
    ELSE MSeq(rs, k + 1, s, MAll(rs[k], s, sts, multiline), multiline)

MAlt(rs, s, st, multiline) ==
    Flatten([k \in 1..Len(rs) |-> M(rs[k], s, st, multiline)], 1, Len(rs))

\* a repeated character class: every count from min to the length of the
\* run (or max), the longest first when greedy, the shortest first when lazy
RepEndsTo(r, st, most) ==
    IF most < r.min THEN <<>>
    ELSE [i \in 1..(most - r.min + 1) |->
            [st EXCEPT !.pos = IF r.lazy THEN st.pos + r.min + i - 1
                                         ELSE st.pos + most - i + 1]]

RepEnds(r, st, run) ==
    RepEndsTo(r, st, IF r.max # 0 /\ r.max < run THEN r.max ELSE run)

MRepSet(r, s, st) == RepEnds(r, st, Run(r.r, s, st.pos))

\* a repeated expression, n repetitions done; a repetition that consumes
\* nothing is not repeated
MRepHere(r, st, n) == IF n >= r.min THEN <<st>> ELSE <<>>

MRepEach(r, s, next, n, multiline) ==
    Flatten([i \in 1..Len(next) |-> MRep(r, s, next[i], n, multiline)],
            1, Len(next))

MRepMore(r, s, st, n, multiline) ==
    IF r.max = 0 \/ n < r.max
    THEN MRepEach(r, s, SelectSeq(M(r.r, s, st, multiline),
                                  LAMBDA e : e.pos > st.pos),
                  n + 1, multiline)
    ELSE <<>>

MRep(r, s, st, n, multiline) ==
    IF r.lazy
    THEN MRepHere(r, st, n) \o MRepMore(r, s, st, n, multiline)
    ELSE MRepMore(r, s, st, n, multiline) \o MRepHere(r, st, n)

M(r, s, st, multiline) ==
    CASE r.t = "lit" ->
           IF /\ st.pos + Len(r.s) - 1 <= Len(s)
              /\ SubSeq(s, st.pos, st.pos + Len(r.s) - 1) = r.s
           THEN <<[st EXCEPT !.pos = @ + Len(r.s)]>>
           ELSE <<>>
      [] r.t = "set" ->
           IF /\ st.pos <= Len(s)
              /\ (CharAt(s, st.pos) \in r.chars) # r.neg
           THEN <<[st EXCEPT !.pos = @ + 1]>>
           ELSE <<>>
      [] r.t = "seq" -> MSeq(r.rs, 1, s, <<st>>, multiline)
      [] r.t = "alt" -> MAlt(r.rs, s, st, multiline)
      [] r.t = "rep" -> IF r.r.t = "set" THEN MRepSet(r, s, st)
                        ELSE MRep(r, s, st, 0, multiline)
      [] r.t = "grp" -> SetGroup(M(r.r, s, st, multiline), r.n, st.pos)
      [] r.t = "look" ->
           IF M(r.r, s, st, multiline) # <<>> THEN <<st>> ELSE <<>>
      [] r.t = "bol" ->
           IF \/ st.pos = 1
              \/ multiline /\ CharAt(s, st.pos - 1) = "\n"
           THEN <<st>> ELSE <<>>
      [] r.t = "eol" ->
           IF \/ st.pos = Len(s) + 1
              \/ st.pos = Len(s) /\ CharAt(s, st.pos) = "\n"
              \/ multiline /\ st.pos <= Len(s) /\ CharAt(s, st.pos) = "\n"
           THEN <<st>> ELSE <<>>

(***************************************************************************)
(* re.search, match.group, re.findall, re.split and str.strip.             *)
(***************************************************************************)
NoMatch == [found |-> FALSE, from |-> 0, pos |-> 0,
            g |-> << <<0, 0>>, <<0, 0>> >>]

\* a pattern that begins with a literal can match only where the literal
\* stands
CanStart(r, s, i) ==
    (r.t = "seq" /\ r.rs[1].t = "lit")
       => /\ i + Len(r.rs[1].s) - 1 <= Len(s)
          /\ SubSeq(s, i, i + Len(r.rs[1].s) - 1) = r.rs[1].s

MatchAt(first, ends) ==
    [found |-> TRUE, from |-> first, pos |-> Head(ends[first]).pos,
     g |-> Head(ends[first]).g]

FirstOf(starts, ends) ==
    IF starts = {} THEN NoMatch ELSE MatchAt(Min(starts), ends)

FirstMatch(ends) == FirstOf({i \in DOMAIN ends : ends[i] # <<>>}, ends)

\* the leftmost match of r in s that starts at position from or later
SearchFrom(r, s, from, multiline) ==
    FirstMatch([i \in from..(Len(s) + 1) |->
                  IF CanStart(r, s, i) THEN M(r, s, Start(i), multiline)
                  ELSE <<>>])

search(r, s, multiline) == SearchFrom(r, s, 1, multiline)

\* match.group(n); a group that did not take part gives None, shown as ""
group(m, s, n) ==
    IF m.g[n][1] = 0 THEN "" ELSE SubSeq(s, m.g[n][1], m.g[n][2] - 1)

\* the successive non-overlapping matches of r in s, left to right (no
\* pattern of the program matches the empty string)
RECURSIVE Matches(_, _, _, _)
RECURSIVE MatchesWith(_, _, _, _)
MatchesWith(m, r, s, multiline) ==
    IF ~m.found THEN <<>> ELSE <<m>> \o Matches(r, s, m.pos, multiline)

Matches(r, s, from, multiline) ==
    MatchesWith(SearchFrom(r, s, from, multiline), r, s, multiline)

StripTo(s, keep) ==
    IF keep = {} THEN "" ELSE SubSeq(s, Min(keep), Max(keep))

strip(s) == StripTo(s, {i \in 1..Len(s) : CharAt(s, i) \notin Whitespace})

(***************************************************************************)
(* 7.3 - the rule catalogue of parse_data, in its declared order.          *)
(***************************************************************************)
Delim == In({":", "\t"})       \* [:\t]

\* Label[:\t]+\s*(value)
Labelled(label, value) ==
    Cat(<<Lit(label), Plus(Delim), Star(WS), Group(1, value)>>)

\* Label[:\t]+\s*(value) where the source has \$?: the currency sign is not
\* skipped
Priced_NoDollar(label, value) ==
    Cat(<<Lit(label), Plus(Delim), Star(WS), Group(1, value)>>)

\* Label[:\t]+\$?(value)
Priced(label, value) ==
    Cat(<<Lit(label), Plus(Delim), Opt(Lit("$")), Group(1, value)>>)

field_patterns == <<
    [name |-> "MLS#",
     pattern |-> Cat(<<Lit("MLS#"), Star(WS), Group(1, Plus(D))>>)],
    [name |-> "DOM/CDOM",
     pattern |-> Labelled("DOM/CDOM", Plus(In(Digit \cup {"/"})))],
    [name |-> "Address",
     pattern |-> Cat(<<Lit("DOM/CDOM"), Plus(Delim), Star(WS), Plus(In(Digit \cup {"/"})),
            Star(WS), Group(1, Plus(NotIn({"\t", "\n"})))>>)],
    [name |-> "County",
     pattern |-> Labelled("County", Plus(NotIn({"\t", "\n"})))],
    [name |-> "List Price",
     pattern |-> Priced("List Price", Plus(In(Digit \cup {","})))],
    [name |-> "Close Price",
     pattern |-> Cat(<<Lit("Close Price"), Star(WS), Lit(":"), Star(WS), Opt(Lit("$")),
            Group(1, Plus(In(Digit \cup {","})))>>)],
    [name |-> "Year Built",
     pattern |-> Labelled("Year Built", Plus(D))],
    [name |-> "Living Area",
     pattern |-> Labelled("Living Area", Plus(In(Digit \cup {","})))],
    [name |-> "Bedrooms Total",
     pattern |-> Labelled("Bedrooms Total", Plus(D))],
    [name |-> "Bathrooms Total",
     pattern |-> Labelled("Bathrooms Total", Plus(D))],
    [name |-> "Garage Spaces",
     pattern |-> Labelled("Garage Spaces", Plus(D))],
    [name |-> "Parcel Number",
     pattern |-> Labelled("Parcel Number", Plus(D))],
    [name |-> "Subdivision Name",
     pattern |-> Labelled("Subdivision Name", Plus(NotIn({"\t", "\n"})))],
    [name |-> "CDD Fee",
     pattern |-> Labelled("CDD Fee", Or(<<Lit("Yes"), Lit("No")>>))],
    [name |-> "New Construction",
     pattern |-> Labelled("New Construction", Or(<<Lit("Yes"), Lit("No")>>))],
    [name |-> "Waterfront",
     pattern |-> Labelled("Waterfront", Or(<<Lit("Yes"), Lit("No")>>))],
    [name |-> "Directions",
     pattern |-> Labelled("Directions", Plus(NotIn({"\t", "\n"})))],
    [name |-> "Public Remarks",
     pattern |-> Cat(<<Lit("Public Remarks"), Plus(Delim), Star(WS), Group(1, LazyStar(AnyChar)),
            Star(WS), Lit("\nPrivate Remarks:")>>)],
    [name |-> "Private Remarks",
     pattern |-> Cat(<<Lit("Private Remarks"), Plus(Delim), Star(WS), Group(1, LazyStar(AnyChar)),
            Ahead(Or(<<Lit("\nAppliances:"), Eol>>))>>)],
    [name |-> "Appliances",
     pattern |-> Labelled("Appliances", Plus(In(Word \cup Whitespace \cup {";", ",", "-"})))],
    [name |-> "Approx Parcel Size",
     pattern |-> Labelled("Approx Parcel Size", Plus(NotIn({"\t", "\n"})))],
    [name |-> "Architectural Style",
     pattern |-> Labelled("Architectural Style", Plus(NotIn({"\t", "\n"})))],
    [name |-> "Construction Materials",
     pattern |-> Labelled("Construction Materials", Plus(NotIn({"\t", "\n"})))],
    [name |-> "Cooling",
     pattern |-> Labelled("Cooling", Plus(NotIn({"\t", "\n"})))],
    [name |-> "Current Use",
     pattern |-> Labelled("Current Use", Plus(NotIn({"\t", "\n"})))],
    [name |-> "DPR Eligible",
     pattern |-> Labelled("DPR Eligible", Star(NotIn({"\t", "\n"})))],
    [name |-> "Fencing",
     pattern |-> Labelled("Fencing", Plus(NotIn({"\t", "\n"})))],
    [name |-> "Fireplace Features",
     pattern |-> Labelled("Fireplace Features", Plus(NotIn({"\t", "\n"})))],
    [name |-> "Heating",
     pattern |-> Labelled("Heating", Plus(NotIn({"\t", "\n"})))],
    [name |-> "Interior Features",
     pattern |-> Labelled("Interior Features", Plus(NotIn({"\t", "\n"})))],
    [name |-> "Laundry Features",
     pattern |-> Labelled("Laundry Features", Plus(NotIn({"\t", "\n"})))],
    [name |-> "Listing Terms",
     pattern |-> Labelled("Listing Terms", Plus(NotIn({"\t", "\n"})))],
    [name |-> "Lot Features",
     pattern |-> Labelled("Lot Features", Plus(NotIn({"\t", "\n"})))],
    [name |-> "Parking Features",
     pattern |-> Labelled("Parking Features", Plus(NotIn({"\t", "\n"})))],
    [name |-> "Patio And Porch Features",
     pattern |-> Labelled("Patio And Porch Features", Plus(NotIn({"\t", "\n"})))],
    [name |-> "Pool Features",
     pattern |-> Labelled("Pool Features", Plus(NotIn({"\t", "\n"})))],
    [name |-> "Possession",
     pattern |-> Labelled("Possession", Plus(NotIn({"\t", "\n"})))],
    [name |-> "Road Surface Type",
     pattern |-> Labelled("Road Surface Type", Plus(NotIn({"\t", "\n"})))],
    [name |-> "Roof",
     pattern |-> Labelled("Roof", Plus(NotIn({"\t", "\n"})))],
    [name |-> "Security Features",
     pattern |-> Labelled("Security Features", Plus(NotIn({"\t", "\n"})))],
    [name |-> "Sewer",
     pattern |-> Labelled("Sewer", Plus(NotIn({"\t", "\n"})))],
    [name |-> "Special Listing Conditions",
     pattern |-> Labelled("Special Listing Conditions", Plus(NotIn({"\t", "\n"})))],
    [name |-> "Utilities",
     pattern |-> Labelled("Utilities", Plus(NotIn({"\t", "\n"})))],
    [name |-> "Water Source",
     pattern |-> Labelled("Water Source", Plus(NotIn({"\t", "\n"})))],
    [name |-> "Showing Requirements",
     pattern |-> Labelled("Showing Requirements", Plus(NotIn({"\t", "\n"})))],
    [name |-> "Showing Considerations",
     pattern |-> Labelled("Showing Considerations", Plus(NotIn({"\t", "\n"})))],
    [name |-> "Listing Contract Date",
     pattern |-> Labelled("Listing Contract Date", Plus(In(Digit \cup {"/"})))],
    [name |-> "Purchase Contract Date",
     pattern |-> Labelled("Purchase Contract Date", Plus(In(Digit \cup {"/"})))],
    [name |-> "Close Date",
     pattern |-> Labelled("Close Date", Plus(In(Digit \cup {"/"})))],
    [name |-> "Listing Service",
     pattern |-> Labelled("Listing Service", Plus(NotIn({"\t", "\n"})))],
    [name |-> "Original List Price",
     pattern |-> Priced("Original List Price", Plus(In(Digit \cup {","})))],
    [name |-> "List Price/SqFt",
     pattern |-> Priced("List Price/SqFt", Plus(In(Digit \cup {"."})))],
    [name |-> "Sold Price/SqFt",
     pattern |-> Priced("Sold Price/SqFt", Plus(In(Digit \cup {"."})))],
    [name |-> "Listing Agreement",
     pattern |-> Labelled("Listing Agreement", Plus(NotIn({"\t", "\n"})))],
    [name |-> "Contingency Reason",
     pattern |-> Labelled("Contingency Reason", Plus(NotIn({"\t", "\n"})))],
    [name |-> "Buyer Financing",
     pattern |-> Labelled("Buyer Financing", Plus(NotIn({"\t", "\n"})))],
    [name |-> "Concessions",
     pattern |-> Labelled("Concessions", Or(<<Lit("Yes"), Lit("No")>>))],
    [name |-> "BuyersCountryReside",
     pattern |-> Labelled("BuyersCountryReside", Plus(NotIn({"\t", "\n"})))],
    [name |-> "SellersCountryReside",
     pattern |-> Labelled("SellersCountryReside", Plus(NotIn({"\t", "\n"})))]
>>

NRules == Len(field_patterns)

FieldNames == [k \in 1..NRules |-> field_patterns[k].name]

designations == <<"LO", "LA", "CO-LA", "SO", "SA", "CO-SA">>

contact_types == <<"Phone", "Mobile", "Office", "Email", "Fax">>

(***************************************************************************)
(* A dict is the sequence of its <<key, value>> items in insertion order.  *)
(***************************************************************************)
HasKey(dict, key) == \E j \in 1..Len(dict) : dict[j][1] = key

\* the first item with the key, where the dict keeps the last
LastWith_First(all, key) ==
    CHOOSE j \in 1..Len(all) :
       /\ all[j][1] = key
       /\ \A h \in 1..(j - 1) : all[h][1] # key

LastWith(all, key) ==
    CHOOSE j \in 1..Len(all) :
       /\ all[j][1] = key
       /\ \A h \in (j + 1)..Len(all) : all[h][1] # key

Merged(all, first) ==
    [n \in 1..Len(first) |->
        <<all[first[n]][1], all[LastWith(all, all[first[n]][1])][2]>>]

Merge(all) ==
    Merged(all, SelectSeq([j \in 1..Len(all) |-> j],
                          LAMBDA j : \A h \in 1..(j - 1) : all[h][1] # all[j][1]))

\* the dict after the assignments dict[key] = value for the items in
\* order: a key keeps the place of its first assignment and the value of
\* its last
Assign(dict, items) == Merge(dict \o items)

\* dict.get(key, default)
DictGet(dict, key, default) ==
    IF HasKey(dict, key)
    THEN dict[CHOOSE j \in 1..Len(dict) : dict[j][1] = key][2]
    ELSE default

Keys(dict) == [j \in 1..Len(dict) |-> dict[j][1]]

(***************************************************************************)
(* 7.4 - parse_agent_line.                                                 *)
(***************************************************************************)
\* the pattern without its '^': the designation is found inside a line too
AgentLinePattern_Unanchored(designation) ==
    Cat(<<Lit(designation), Lit(":"), Star(WS), Group(1, Star(Dot)), Eol>>)

\* '^' + re.escape(designation) + ':\s*(.*)$'
AgentLinePattern(designation) ==
    Cat(<<Bol, Lit(designation), Lit(":"), Star(WS), Group(1, Star(Dot)), Eol>>)

\* \s*\(
NameEndPattern == Cat(<<Star(WS), Lit("(")>>)

\* \(([^):]+):?\)\s*:?\s*([^()]+)?
ContactPattern ==
    Cat(<<Lit("("), Group(1, Plus(NotIn({")", ":"}))), Opt(Lit(":")), Lit(")"),
          Star(WS), Opt(Lit(":")), Star(WS),
          Opt(Group(2, Plus(NotIn({"(", ")"}))))>>)

\* ' '.join(re.findall(pattern, record, re.MULTILINE))
RECURSIVE JoinGroups(_, _)
JoinGroups(ms, s) ==
    IF ms = <<>> THEN ""
    ELSE IF Len(ms) = 1 THEN group(ms[1], s, 1)
    ELSE group(ms[1], s, 1) \o " " \o JoinGroups(Tail(ms), s)

\* the separator kept with the part before it
BeforeMatch_WithMatch(m, line) ==
    IF m.found THEN SubSeq(line, 1, m.pos - 1) ELSE line

BeforeMatch(m, line) ==
    IF m.found THEN SubSeq(line, 1, m.from - 1) ELSE line

\* re.split(r'\s*\(', line, 1)[0]
BeforeFirstParen(line) == BeforeMatch(search(NameEndPattern, line, FALSE), line)

\* the dict comprehension without the strip of the value
ContactsDict_Raw(ms, s) ==
    Assign(<<>>, [j \in 1..Len(ms) |-> <<strip(group(ms[j], s, 1)),
                                         group(ms[j], s, 2)>>])

\* the dict comprehension over re.findall(contacts pattern, contacts_part)
ContactsDict(ms, s) ==
    Assign(<<>>, [j \in 1..Len(ms) |-> <<strip(group(ms[j], s, 1)),
                                         strip(group(ms[j], s, 2))>>])

ContactsOf(contacts_part) ==
    ContactsDict(Matches(ContactPattern, contacts_part, 1, FALSE),
                 contacts_part)

\* name_part is known: contacts_part = line[len(name_part):].strip()
AgentOfName(line, name_part) ==
    [name |-> name_part,
     contacts |-> ContactsOf(strip(SubSeq(line, Len(name_part) + 1, Len(line))))]

\* line is known: name_part = re.split(r'\s*\(', line, 1)[0].strip()
AgentOfLine(line) == AgentOfName(line, strip(BeforeFirstParen(line)))

\* matches is known: line = ' '.join(matches).strip(), or ('', {})
AgentOfMatches(matches, record) ==
    IF matches # <<>> THEN AgentOfLine(strip(JoinGroups(matches, record)))
    ELSE [name |-> "", contacts |-> <<>>]

parse_agent_line(designation, record) ==
    AgentOfMatches(Matches(AgentLinePattern(designation), record, 1, TRUE),
                   record)

(***************************************************************************)
(* 7.5 - the record splitter.                                              *)
(***************************************************************************)
\* 'MLS#', one space, digits
MarkerPattern_OneSpace == Cat(<<Lit("MLS#"), Lit(" "), Plus(D)>>)

\* MLS#\s*\d+
MarkerPattern == Cat(<<Lit("MLS#"), Star(WS), Plus(D)>>)

\* the split at the first match only
SplitAt_Once(ms, s, from) ==
    IF ms = <<>> THEN <<SubSeq(s, from, Len(s))>>
    ELSE <<SubSeq(s, from, ms[1].from - 1), group(ms[1], s, 1),
           SubSeq(s, ms[1].pos, Len(s))>>

\* re.split(r'(MLS#\s*\d+)', data): the text between the matches, with the
\* text of each match (its group 1) in between
RECURSIVE SplitAt(_, _, _)
SplitAt(ms, s, from) ==
    IF ms = <<>> THEN <<SubSeq(s, from, Len(s))>>
    ELSE <<SubSeq(s, from, ms[1].from - 1), group(ms[1], s, 1)>>
           \o SplitAt(Tail(ms), s, ms[1].pos)

\* the split at (MLS#\s*\d*): a 'MLS#' without a number is a boundary too
split_DigitsOptional(data) ==
    SplitAt(Matches(Group(1, Cat(<<Lit("MLS#"), Star(WS), Star(D)>>)),
                    data, 1, FALSE), data, 1)

split(data) ==
    SplitAt(Matches(Group(1, MarkerPattern), data, 1, FALSE), data, 1)

\* the text before the first marker kept
DropLeading_Keep(records) == records

\* 7.5.1 - drop the text before the first marker
DropLeading(records) ==
    IF records # <<>> /\ ~search(MarkerPattern, records[1], FALSE).found
    THEN Tail(records) ELSE records

PairOf(mls, content) ==
    IF mls # "" /\ content # "" THEN <<mls \o "\n" \o content>> ELSE <<>>

\* 7.5.2 - pair each marker with the content that follows it
RECURSIVE Pair(_, _)
Pair(records, i) ==
    IF i > Len(records) THEN <<>>
    ELSE PairOf(strip(records[i]),
                IF i + 1 <= Len(records) THEN strip(records[i + 1]) ELSE "")
           \o Pair(records, i + 2)

paired(data) == Pair(DropLeading(split(data)), 1)

(***************************************************************************)
(* 7.6 - field and agent extraction for one record.                        *)
(***************************************************************************)
GroupOrEmpty(match, record) ==
    IF match.found THEN strip(group(match, record, 1)) ELSE ""

\* 7.6.1 - one rule: the first match's group 1 trimmed, or ''
FieldValue(pattern, record) ==
    GroupOrEmpty(search(pattern, record, FALSE), record)

\* the loop of 7.6.1 without its else branch: a rule that finds no match
\* stores nothing
ExtractFields_MatchedOnly(record, record_data) ==
    Assign(record_data,
           SelectSeq([k \in 1..NRules |->
                         <<field_patterns[k].name,
                           FieldValue(field_patterns[k].pattern, record)>>],
                     LAMBDA item :
                        \E k \in 1..NRules :
                           /\ field_patterns[k].name = item[1]
                           /\ search(field_patterns[k].pattern, record,
                                     FALSE).found))

\* the order in which field_patterns.items() gives the rules: that of the
\* dict literal
CatalogueOrder == [n \in 1..NRules |-> n]

\* the rules of the order up to the first one that finds no match
UpToFirstMiss(order, record) ==
    SubSeq(order, 1,
           Min({n \in 1..NRules :
                   ~search(field_patterns[order[n]].pattern, record, FALSE).found}
               \cup {NRules + 1}) - 1)

\* the loop of 7.6.1 ended by the first rule that finds no match
ExtractFieldsIn_BreakOnMiss(order, record, record_data) ==
    Assign(record_data,
           [n \in 1..Len(UpToFirstMiss(order, record)) |->
               <<field_patterns[order[n]].name,
                 FieldValue(field_patterns[order[n]].pattern, record)>>])

\* the loop of 7.6.1, the rules taken in the given order
ExtractFieldsIn(order, record, record_data) ==
    Assign(record_data,
           [n \in 1..NRules |->
               <<field_patterns[order[n]].name,
                 FieldValue(field_patterns[order[n]].pattern, record)>>])

\* the loop of 7.6.1 over the catalogue
ExtractFields(record, record_data) ==
    ExtractFieldsIn(CatalogueOrder, record, record_data)

\* 7.6.4 - the keys of one designation: its name, then its contact types
AgentItems(desig, agent) ==
    <<<<desig \o " Name", agent.name>>>>
      \o [c \in 1..Len(contact_types) |->
            <<desig \o " " \o contact_types[c],
              DictGet(agent.contacts, contact_types[c], "")>>]

\* the loop of 7.6.4 over the designations
ExtractAgents(record, record_data) ==
    Assign(record_data,
           Flatten([d \in 1..Len(designations) |->
                       AgentItems(designations[d],
                                  parse_agent_line(designations[d], record))],
                   1, Len(designations)))

(***************************************************************************)
(* 7.7 - the DataFrame: its columns and, for each row, the cell of each    *)
(* column.                                                                 *)
(***************************************************************************)
\* the cell pandas puts where a dict has no such key
NaN == "NaN"

\* pd.DataFrame(): no column, no row
EmptyFrame == [columns |-> <<>>, rows |-> <<>>]

FrameOf(recs, columns) ==
    [columns |-> columns,
     rows |-> [r \in 1..Len(recs) |->
                 [c \in 1..Len(columns) |-> DictGet(recs[r], columns[c], NaN)]]]

\* pd.DataFrame(parsed_records): the columns are the keys in the order of
\* their first appearance
DataFrame(recs) ==
    FrameOf(recs, Keys(Assign(<<>>, Flatten(recs, 1, Len(recs)))))

\* the element put one place too far
InsertAt_After(seq, loc, e) ==
    IF loc + 1 > Len(seq) THEN Append(seq, e)
    ELSE SubSeq(seq, 1, loc + 1) \o <<e>> \o SubSeq(seq, loc + 2, Len(seq))

InsertAt(seq, loc, e) ==
    SubSeq(seq, 1, loc) \o <<e>> \o SubSeq(seq, loc + 1, Len(seq))

\* df.insert(loc, column, value) with a scalar value
insert(frame, loc, column, value) ==
    [columns |-> InsertAt(frame.columns, loc, column),
     rows |-> [r \in 1..Len(frame.rows) |-> InsertAt(frame.rows[r], loc, value)]]

\* the cell of a row under a column
Cell(frame, r, column) ==
    frame.rows[r][CHOOSE c \in 1..Len(frame.columns) : frame.columns[c] = column]

(***************************************************************************)
(* 7.7.1 - the clock: datetime.now(est).strftime("%m/%d/%y").              *)
(***************************************************************************)
DigitChar == <<"0", "1", "2", "3", "4", "5", "6", "7", "8", "9">>

TwoDigits(n) == DigitChar[((n \div 10) % 10) + 1] \o DigitChar[(n % 10) + 1]

strftime(date) ==
    TwoDigits(date.month) \o "/" \o TwoDigits(date.day) \o "/"
      \o TwoDigits(date.year % 100)

DaysIn(year, month) ==
    IF month = 2
    THEN (IF year % 4 = 0 /\ (year % 100 # 0 \/ year % 400 = 0) THEN 29 ELSE 28)
    ELSE IF month \in {4, 6, 9, 11} THEN 30 ELSE 31

NextDay(date) ==
    IF date.day < DaysIn(date.year, date.month)
    THEN [date EXCEPT !.day = @ + 1]
    ELSE IF date.month < 12
    THEN [date EXCEPT !.day = 1, !.month = @ + 1]
    ELSE [year |-> date.year + 1, month |-> 1, day |-> 1]

\* the day on which the program is started
StartDate == [year |-> 2024, month |-> 12, day |-> 31]

(***************************************************************************)
(* The input texts.                                                        *)
(***************************************************************************)
\* the fixture of the specification's round-trip property
Fixture ==
    "MLS# 12345\nList Price:\t$250,000\nLO: Jane Doe (Phone): 555-1111 (Email): jane@x.com\n"

MaxTokens == 3

MaxLines == 2

\* pieces of which markers, contents and leading text are made
Tokens == <<"MLS#", "1", " ", "x", "MLS#2 y">>

\* lines of a listing
Lines == <<"Public Remarks: Nice\nhome\n",
           "Private Remarks: call\n",
           "LA: John Smith\n",
           "LA:\n",
           "CO-LA: Al (Phone): 5\n">>

RECURSIVE Concat(_, _)
Concat(pieces, choice) ==
    IF choice = <<>> THEN ""
    ELSE pieces[Head(choice)] \o Concat(pieces, Tail(choice))

Choices(n, max) == UNION {[1..k -> 1..n] : k \in 0..max}

TokenTexts == {Concat(Tokens, c) : c \in Choices(Len(Tokens), MaxTokens)}

LineTexts == {"MLS# 1\n" \o Concat(Lines, c) : c \in Choices(Len(Lines), MaxLines)}

\* values written after the label of a rule: a number, a word of a
\* Yes/No rule, a remark of two lines with the line that ends it
SampleValues == <<"7", "No", "a\nb\nPrivate Remarks:">>

\* the delimiters of the source format between a label and its value
Delimiters == {":", "\t"}

\* a listing whose only line is the label of rule k, the delimiter and the
\* value
RuleText(k, delim, value) == "MLS# 1\n" \o FieldNames[k] \o delim \o value

RuleTexts ==
    {RuleText(k, d, SampleValues[v]) :
        k \in 1..NRules, d \in Delimiters, v \in 1..Len(SampleValues)}

\* what stands after the designation and the colon on the lines of a role:
\* channel labels in other letter case or with spaces, a line that begins
\* with a parenthesis, a value with a closing parenthesis, a colon inside
\* the parentheses and a group without a value, a role written on two
\* lines
AgentLines == << <<"Al (phone): 5">>,
                 <<"Al (PHONE): 5">>,
                 <<"Al ( Phone ): 5">>,
                 <<"(Phone): 5">>,
                 <<"Al (Fax): 5) x (Email) e">>,
                 <<"Al (Phone:) 5 (Fax)">>,
                 <<"Al", "(Phone): 5">>,
                 <<"Al (Phone): 5", "Bob (Phone): 6">>,
                 <<"Al (Phone): 5 (Phone)">>,
                 <<"Al", "Bob (Phone): 5 (Phone): 6">> >>

RECURSIVE AgentText(_, _)
AgentText(desig, contents) ==
    IF contents = <<>> THEN ""
    ELSE desig \o ": " \o Head(contents) \o "\n"
           \o AgentText(desig, Tail(contents))

AgentTexts ==
    {"MLS# 1\n" \o AgentText(designations[d], AgentLines[a]) :
        d \in 1..Len(designations), a \in 1..Len(AgentLines)}

\* what stands between 'MLS#' and the digits of a marker
MarkerGaps == {"", " ", "\t", " \t"}

\* two listings, each marker written with a gap of its own
MarkerTexts ==
    {"MLS#" \o g \o "7 a\nMLS#" \o h \o "8 b" : g \in MarkerGaps, h \in MarkerGaps}

\* the rules with one capture on the line of their label: all but the
\* marker rule and the two free-text rules
SingleCapture ==
    {k \in 1..NRules :
        FieldNames[k] \notin {"MLS#", "Public Remarks", "Private Remarks"}}

\* a listing where the label of rule k has no value: the line break stands
\* directly after the delimiter, and another line follows
EmptyValueTexts ==
    {RuleText(k, ":\n", SampleValues[v]) : k \in SingleCapture, v \in 1..2}

\* listings with the two list prices, in both orders
PriceTexts ==
    {"MLS# 1\nOriginal List Price:7\nList Price:8",
     "MLS# 1\nList Price:8\nOriginal List Price:7"}

Texts ==
    TokenTexts \cup LineTexts \cup {Fixture} \cup RuleTexts \cup AgentTexts
      \cup MarkerTexts \cup EmptyValueTexts \cup PriceTexts

(***************************************************************************)
(* 8 - the worksheet: its rows from the first to the last one that holds   *)
(* a value, each a sequence of cells; the calls of the worksheet that      *)
(* ensure_columns_exist and append_to_google_sheet make.                   *)
(***************************************************************************)
\* df.empty: no row or no column
empty(frame) == frame.rows = <<>> \/ frame.columns = <<>>

\* a row without the empty cells at its end
Trimmed(row) ==
    SubSeq(row, 1, Max({0} \cup {c \in 1..Len(row) : row[c] # ""}))

\* worksheet.row_values(1)
row_values(sheet) == IF sheet = <<>> THEN <<>> ELSE Trimmed(sheet[1])

\* worksheet.insert_cols([col], 1): a column in front of the others, col in
\* its first row
insert_cols(sheet, col) ==
    IF sheet = <<>> THEN << <<col>> >>
    ELSE [r \in 1..Len(sheet) |-> <<IF r = 1 THEN col ELSE "">> \o sheet[r]]

\* the loop over reversed(missing_columns): the last missing column is
\* inserted first
RECURSIVE InsertMissing(_, _)
InsertMissing(sheet, missing_columns) ==
    IF missing_columns = <<>> THEN sheet
    ELSE insert_cols(InsertMissing(sheet, Tail(missing_columns)),
                     Head(missing_columns))

IsIn(seq, e) == \E n \in 1..Len(seq) : seq[n] = e

required_columns == <<"Created on", "Format">>

ensure_columns_exist(sheet, required) ==
    InsertMissing(sheet,
                  SelectSeq(required, LAMBDA col : ~IsIn(row_values(sheet), col)))

\* df.reindex(columns=existing_headers): the cells of the frame under the
\* headers, NaN under a header the frame has no column for
reindex(frame, headers) ==
    [columns |-> headers,
     rows |-> [r \in 1..Len(frame.rows) |->
                 [c \in 1..Len(headers) |->
                     IF IsIn(frame.columns, headers[c])
                     THEN Cell(frame, r, headers[c]) ELSE NaN]]]

\* the frame with its columns as the headers of the worksheet have them
Aligned(frame, existing_headers) ==
    IF existing_headers # frame.columns THEN reindex(frame, existing_headers)
    ELSE frame

\* the row at which the rows are written over the last row of the worksheet
next_row_Last(existing_data) ==
    IF existing_data = <<>> THEN 1 ELSE Len(existing_data)

\* the next empty row
next_row(existing_data) == Len(existing_data) + 1

\* worksheet.insert_rows(data, row=row)
insert_rows(sheet, rows, row) ==
    SubSeq(sheet, 1, row - 1) \o rows \o SubSeq(sheet, row, Len(sheet))

\* the worksheet has its required columns: the rows of the frame are put
\* at the next empty row
AppendRows(sheet, frame) ==
    insert_rows(sheet, Aligned(frame, row_values(sheet)).rows, next_row(sheet))

AppendFrame(sheet, frame) ==
    AppendRows(ensure_columns_exist(sheet, required_columns), frame)

\* a row written to the worksheet earlier
OldRow(columns) == [c \in 1..Len(columns) |-> "old"]

\* worksheets the call may find: without a row, with the columns of the
\* frame and a row, without the two required columns, with one of them
Worksheets(frame) ==
    {<<>>,
     << <<"MLS#", "County">>, <<"9", "Lee">>, <<"8", "Polk">> >>,
     << <<"Format", "MLS#">>, <<"Standard", "9">> >>}
    \cup (IF frame.columns = <<>> THEN {}
          ELSE {<<frame.columns, OldRow(frame.columns)>>})

\* the worksheet before append_to_google_sheet is called
NotOpened == << <<"(not opened)">> >>

(***************************************************************************)
(* parse_data as a state machine: one call after the other on the same     *)
(* text.                                                                   *)
(***************************************************************************)
VARIABLES
    data,            \* the argument of parse_data
    pc,              \* "split", "fields", "agents", "frame", "done"
    paired_records,  \* 7.5.2
    i,               \* the place in paired_records of the record of the loop 7.6
    record_data,     \* the dict of the record of the loop
    parsed_records,  \* 7.6
    df,              \* the DataFrame returned, once pc = "done"
    log,             \* the messages of logging.error
    now,             \* the date of the clock when it was last read
    call,            \* "first", "second"
    first,           \* the DataFrame the first call returned
    badRule,         \* the rule whose pattern does not compile, or 0
    raisedAt,        \* the records during which an exception was raised
    existing,        \* the rows append_to_google_sheet found in the worksheet
    worksheet,       \* the rows of the worksheet when the call has returned
    steps,           \* the output steps main has run, with their outcome
    total_records,   \* skip trace: the number of rows of the spreadsheet
    combined,        \* skip trace: the rows have a 'Property Address'
    spc,             \* skip trace: "off", "first", "retry", "end", "failed"
    index,           \* skip trace: the place of the loop in its sequence
    answers,         \* skip trace: what process_record returned, per row
    API_Response,    \* skip trace: the column of the summary, per row
    results,         \* skip trace: the rows whose result was appended
    retry_queue      \* skip trace: the rows to be sent again

parserVars == <<data, pc, paired_records, i, record_data, parsed_records, df,
                log, now, call, first, badRule, raisedAt, existing, worksheet>>

skipVars == <<total_records, combined, spc, index, answers, API_Response,
              results, retry_queue>>

vars == <<parserVars, steps, skipVars>>

NoFrame == [columns |-> <<"(not returned)">>, rows |-> <<>>]

AgentError == "Error extracting agent details"

ParsingError == "An error occurred during data parsing"

InitCall ==
    /\ pc = "split"
    /\ paired_records = <<>>
    /\ i = 0
    /\ record_data = <<>>
    /\ parsed_records = <<>>
    /\ df = NoFrame
    /\ log = <<>>
    /\ raisedAt = {}
    /\ existing = NotOpened
    /\ worksheet = NotOpened

\* the skip trace script is not running
SkipOff ==
    /\ total_records = 0
    /\ combined = TRUE
    /\ spc = "off"
    /\ index = 0
    /\ answers = <<>>
    /\ API_Response = <<>>
    /\ results = <<>>
    /\ retry_queue = <<>>

Init ==
    /\ data \in Texts
    /\ InitCall
    /\ now = StartDate
    /\ call = "first"
    /\ first = NoFrame
    /\ badRule = 0
    /\ steps = <<>>
    /\ SkipOff

\* 7.5 - split the text and pair the markers with their contents
SplitRecords ==
    /\ pc = "split"
    /\ paired_records' = paired(data)
    /\ i' = 1
    /\ pc' = IF paired_records' = <<>> THEN "frame" ELSE "fields"
    /\ UNCHANGED <<steps, skipVars, existing, worksheet, data, record_data, parsed_records,
                   df, log, now, call,
                   first, badRule, raisedAt>>

\* 7.6.1 - the rules of the catalogue on the record of the loop
FieldLoop ==
    /\ pc = "fields"
    /\ badRule = 0
    /\ record_data' = ExtractFields(paired_records[i], <<>>)
    /\ pc' = "agents"
    /\ UNCHANGED <<steps, skipVars, existing, worksheet, data, paired_records, i,
                   parsed_records, df, log, now,
                   call, first, badRule, raisedAt>>

\* 7.6.4 - the designations on the record of the loop, then the append
AgentLoop ==
    /\ pc = "agents"
    /\ record_data' = ExtractAgents(paired_records[i], record_data)
    /\ parsed_records' = Append(parsed_records, record_data')
    /\ i' = i + 1
    /\ pc' = IF i + 1 > Len(paired_records) THEN "frame" ELSE "fields"
    /\ UNCHANGED <<steps, skipVars, existing, worksheet, data, paired_records, df, log, now,
                   call, first, badRule,
                   raisedAt>>

\* 7.7 - the DataFrame with "Created on" and "Format" in front; the clock
\* is read: the first reading gives the day the program was started on, a
\* later reading that of the reading before it or the day after
BuildFrame ==
    /\ pc = "frame"
    /\ \E date \in (IF call = "first" THEN {now} ELSE {now, NextDay(now)}) :
          /\ now' = date
          /\ df' = insert(insert(DataFrame(parsed_records), 0, "Created on",
                                 strftime(date)),
                          1, "Format", "Standard")
    /\ first' = IF call = "first" THEN df' ELSE first
    /\ pc' = "done"
    /\ UNCHANGED <<steps, skipVars, existing, worksheet, data, paired_records, i, record_data,
                   parsed_records, log,
                   call, badRule, raisedAt>>

\* parse_data is called once more on the same text
CallAgain ==
    /\ pc = "done"
    /\ call = "first"
    /\ call' = "second"
    /\ pc' = "split"
    /\ paired_records' = <<>>
    /\ i' = 0
    /\ record_data' = <<>>
    /\ parsed_records' = <<>>
    /\ df' = NoFrame
    /\ log' = <<>>
    /\ raisedAt' = {}
    /\ UNCHANGED <<steps, skipVars, existing, worksheet, data, now, first, badRule>>

\* 8 - the frame parse_data returned is appended to the worksheet, whatever
\* rows the worksheet holds when the call opens it
append_to_google_sheet ==
    /\ pc = "done"
    /\ \E found \in Worksheets(df) :
          /\ existing' = found
          /\ worksheet' = IF empty(df) THEN found ELSE AppendFrame(found, df)
    /\ pc' = "appended"
    /\ UNCHANGED <<steps, skipVars, data, paired_records, i, record_data,
                   parsed_records, df, log, now, call, first, badRule,
                   raisedAt>>

Next ==
    \/ SplitRecords
    \/ FieldLoop
    \/ AgentLoop
    \/ BuildFrame
    \/ CallAgain
    \/ append_to_google_sheet

Spec == Init /\ [][Next]_vars

(***************************************************************************)
(* parse_data with exceptions: a pattern of the catalogue that does not    *)
(* compile (re.search raises re.error where it is first used), and an      *)
(* exception raised while a record is in the field loop or in the agent    *)
(* loop.                                                                   *)
(***************************************************************************)
InitFault ==
    /\ data \in Texts
    /\ InitCall
    /\ now = StartDate
    /\ call = "first"
    /\ first = NoFrame
    /\ badRule \in {0, 1, NRules}
    /\ steps = <<>>
    /\ SkipOff

\* an exception in the field loop is caught by the handler of 289-291:
\* the call returns pd.DataFrame()
FieldLoopRaises ==
    /\ pc = "fields"
    /\ raisedAt' = raisedAt \cup {i}
    /\ log' = Append(log, ParsingError)
    /\ df' = EmptyFrame
    /\ first' = IF call = "first" THEN EmptyFrame ELSE first
    /\ pc' = "done"
    /\ UNCHANGED <<steps, skipVars, existing, worksheet, data, paired_records, i, record_data,
                   parsed_records, now,
                   call, badRule>>

\* an exception in the agent loop is caught by the handler of 263-265:
\* the record is skipped
AgentLoopRaises ==
    /\ pc = "agents"
    /\ raisedAt' = raisedAt \cup {i}
    /\ log' = Append(log, AgentError)
    /\ i' = i + 1
    /\ pc' = IF i + 1 > Len(paired_records) THEN "frame" ELSE "fields"
    /\ UNCHANGED <<steps, skipVars, existing, worksheet, data, paired_records, record_data,
                   parsed_records, df, now,
                   call, first, badRule>>

NextFault == Next \/ FieldLoopRaises \/ AgentLoopRaises

SpecFault == InitFault /\ [][NextFault]_vars

(***************************************************************************)
(* 11 - main of the sales parser: the file is read, parse_data is called   *)
(* once, and the three output steps follow. Each output step has its body  *)
(* in a try block whose handler logs the exception and returns.            *)
(***************************************************************************)
\* what read_file may have returned: nothing, a text without a marker,
\* listings
MainTexts == {"", "x", Fixture} \cup MarkerTexts

SaveError == "An error occurred while saving the CSV file to Google Drive"

SheetError == "An error occurred while appending to Google Sheet"

ClientError == "Google Sheets client not initialized."

DownloadError == "An error occurred during the download"

InitMain ==
    /\ data \in MainTexts
    /\ pc = "read"
    /\ paired_records = <<>>
    /\ i = 0
    /\ record_data = <<>>
    /\ parsed_records = <<>>
    /\ df = NoFrame
    /\ log = <<>>
    /\ raisedAt = {}
    /\ existing = NotOpened
    /\ worksheet = NotOpened
    /\ now = StartDate
    /\ call = "first"
    /\ first = NoFrame
    /\ badRule = 0
    /\ steps = <<>>
    /\ SkipOff

\* 6.1 - main returns when read_file gave nothing, and calls parse_data
\* otherwise
main_read ==
    /\ pc = "read"
    /\ pc' = IF data = "" THEN "exit" ELSE "split"
    /\ UNCHANGED <<steps, skipVars, existing, worksheet, data, paired_records,
                   i, record_data, parsed_records, df, log, now, call, first,
                   badRule, raisedAt>>

\* main returns when the frame parse_data returned is empty
main_parsed ==
    /\ pc = "done"
    /\ pc' = IF empty(df) THEN "exit" ELSE "save"
    /\ UNCHANGED <<steps, skipVars, existing, worksheet, data, paired_records,
                   i, record_data, parsed_records, df, log, now, call, first,
                   badRule, raisedAt>>

\* the step ends main when it fails
save_to_google_drive_Raises ==
    /\ pc = "save"
    /\ \E ok \in BOOLEAN :
          /\ steps' = Append(steps, [step |-> "save", ok |-> ok])
          /\ log' = IF ok THEN log ELSE Append(log, SaveError)
          /\ pc' = IF ok THEN "append" ELSE "exit"
    /\ UNCHANGED <<skipVars, existing, worksheet, data, paired_records, i,
                   record_data, parsed_records, df, now, call, first, badRule,
                   raisedAt>>

\* 9.1 - the CSV file is written to the Drive folder, or an exception of
\* the body is logged; main goes on in both cases
save_to_google_drive ==
    /\ pc = "save"
    /\ \E ok \in BOOLEAN :
          /\ steps' = Append(steps, [step |-> "save", ok |-> ok])
          /\ log' = IF ok THEN log ELSE Append(log, SaveError)
    /\ pc' = "append"
    /\ UNCHANGED <<skipVars, existing, worksheet, data, paired_records, i,
                   record_data, parsed_records, df, now, call, first, badRule,
                   raisedAt>>

\* 8.1 as main calls it, on a frame that is not empty: the rows are
\* appended to the worksheet the call finds
main_append ==
    /\ pc = "append"
    /\ \E found \in Worksheets(df) :
          /\ existing' = found
          /\ worksheet' = AppendFrame(found, df)
    /\ steps' = Append(steps, [step |-> "append", ok |-> TRUE])
    /\ pc' = "download"
    /\ UNCHANGED <<skipVars, data, paired_records, i, record_data,
                   parsed_records, df, log, now, call, first, badRule,
                   raisedAt>>

\* 8.1 without a client (336-338) or with an exception before the
\* worksheet is open (341-342): the error is logged and the call returns
main_append_NotOpened ==
    /\ pc = "append"
    /\ \E message \in {ClientError, SheetError} : log' = Append(log, message)
    /\ steps' = Append(steps, [step |-> "append", ok |-> FALSE])
    /\ pc' = "download"
    /\ UNCHANGED <<skipVars, existing, worksheet, data, paired_records, i,
                   record_data, parsed_records, df, now, call, first, badRule,
                   raisedAt>>

\* 8.1 with an exception of insert_rows (370): the columns are ensured,
\* no row is written, the error is logged and the call returns
main_append_Raises ==
    /\ pc = "append"
    /\ \E found \in Worksheets(df) :
          /\ existing' = found
          /\ worksheet' = ensure_columns_exist(found, required_columns)
    /\ log' = Append(log, SheetError)
    /\ steps' = Append(steps, [step |-> "append", ok |-> FALSE])
    /\ pc' = "download"
    /\ UNCHANGED <<skipVars, data, paired_records, i, record_data,
                   parsed_records, df, now, call, first, badRule, raisedAt>>

\* 10.1 - the CSV file is written and its download started, or an
\* exception of the body is logged; main returns
download_parsed_data ==
    /\ pc = "download"
    /\ \E ok \in BOOLEAN :
          /\ steps' = Append(steps, [step |-> "download", ok |-> ok])
          /\ log' = IF ok THEN log ELSE Append(log, DownloadError)
    /\ pc' = "exit"
    /\ UNCHANGED <<skipVars, existing, worksheet, data, paired_records, i,
                   record_data, parsed_records, df, now, call, first, badRule,
                   raisedAt>>

NextMain ==
    \/ main_read
    \/ SplitRecords
    \/ FieldLoop
    \/ FieldLoopRaises
    \/ AgentLoop
    \/ AgentLoopRaises
    \/ BuildFrame
    \/ main_parsed
    \/ save_to_google_drive
    \/ main_append
    \/ main_append_NotOpened
    \/ main_append_Raises
    \/ download_parsed_data

SpecMain == InitMain /\ [][NextMain]_vars

(***************************************************************************)
(* main of the skip trace script, 3.7 and 3.8: every row of the            *)
(* spreadsheet is sent to the API, the rows without a result are sent      *)
(* once more.                                                              *)
(***************************************************************************)
MaxRows == 3

\* what process_record returns: None after a rate limit or a request
\* error, the JSON of the response, which may be empty
Returned == {"None", "result", "empty"}

InitSkip ==
    /\ total_records \in 0..MaxRows
    /\ combined \in BOOLEAN
    /\ spc = "first"
    /\ index = 1
    /\ answers = [row \in 1..total_records |-> <<>>]
    /\ API_Response = [row \in 1..total_records |-> ""]
    /\ results = <<>>
    /\ retry_queue = <<>>
    /\ data = ""
    /\ pc = "off"
    /\ paired_records = <<>>
    /\ i = 0
    /\ record_data = <<>>
    /\ parsed_records = <<>>
    /\ df = NoFrame
    /\ log = <<>>
    /\ raisedAt = {}
    /\ existing = NotOpened
    /\ worksheet = NotOpened
    /\ now = StartDate
    /\ call = "first"
    /\ first = NoFrame
    /\ badRule = 0
    /\ steps = <<>>

\* the result of a row is appended and the row marked; save_result is
\* called with row['Property Address'], which raises KeyError when the
\* spreadsheet has the address in separate columns: the handler of main
\* (403-404) logs it and main returns
Succeeded(row) ==
    /\ results' = Append(results, row)
    /\ API_Response' = [API_Response EXCEPT ![row] = "Success"]
    /\ spc' = IF combined THEN spc ELSE "failed"
    /\ index' = IF combined THEN index + 1 ELSE index

\* 3.7 - one turn of the first loop
process_records ==
    /\ spc = "first"
    /\ index <= total_records
    /\ \E result \in Returned :
          /\ answers' = [answers EXCEPT ![index] = Append(@, result)]
          /\ IF result = "None"
             THEN /\ retry_queue' = Append(retry_queue, index)
                  /\ API_Response' = [API_Response EXCEPT ![index] = "Error"]
                  /\ index' = index + 1
                  /\ UNCHANGED <<results, spc>>
             ELSE IF result = "result"
             THEN /\ Succeeded(index)
                  /\ UNCHANGED retry_queue
             ELSE /\ index' = index + 1
                  /\ UNCHANGED <<retry_queue, API_Response, results, spc>>
    /\ UNCHANGED <<parserVars, steps, total_records, combined>>

\* the first loop has ended
records_done ==
    /\ spc = "first"
    /\ index > total_records
    /\ spc' = "retry"
    /\ index' = 1
    /\ UNCHANGED <<parserVars, steps, total_records, combined, answers,
                   API_Response, results, retry_queue>>

\* 3.8 - one turn of the loop over the retry queue
process_retry_queue ==
    /\ spc = "retry"
    /\ index <= Len(retry_queue)
    /\ \E result \in Returned :
          /\ answers' = [answers EXCEPT ![retry_queue[index]] = Append(@, result)]
          /\ IF result = "result"
             THEN Succeeded(retry_queue[index])
             ELSE /\ index' = index + 1
                  /\ UNCHANGED <<API_Response, results, spc>>
    /\ UNCHANGED <<parserVars, steps, total_records, combined, retry_queue>>

\* 3.9 to 3.12 - the results and the summary are written, or an exception
\* is logged by the handler of main
save_final_results ==
    /\ spc = "retry"
    /\ index > Len(retry_queue)
    /\ spc' \in {"end", "failed"}
    /\ UNCHANGED <<parserVars, steps, total_records, combined, index, answers,
                   API_Response, results, retry_queue>>

NextSkip ==
    \/ process_records
    \/ records_done
    \/ process_retry_queue
    \/ save_final_results

SpecSkip == InitSkip /\ [][NextSkip]_vars

(***************************************************************************)
(* What the properties speak of, said without the regular expressions.     *)
(***************************************************************************)
\* an MLS marker starts at position p of s: 'MLS#', whitespace or none,
\* a digit
MarkerAt(s, p) ==
    /\ p + 3 <= Len(s)
    /\ SubSeq(s, p, p + 3) = "MLS#"
    /\ \E q \in (p + 4)..Len(s) :
          /\ CharAt(s, q) \in Digit
          /\ \A w \in (p + 4)..(q - 1) : CharAt(s, w) \in Whitespace

MarkerStarts(s) == {p \in 1..Len(s) : MarkerAt(s, p)}

\* the n-th element of a set of numbers
Nth(S, n) == CHOOSE p \in S : Cardinality({q \in S : q < p}) = n - 1

\* the first digit of the marker that starts at p
FirstDigit(s, p) ==
    CHOOSE q \in (p + 4)..Len(s) :
       /\ CharAt(s, q) \in Digit
       /\ \A w \in (p + 4)..(q - 1) : CharAt(s, w) \in Whitespace

\* the last digit of the number that starts at d
LastDigit(s, d) ==
    CHOOSE q \in d..Len(s) :
       /\ \A w \in d..q : CharAt(s, w) \in Digit
       /\ (q = Len(s) \/ CharAt(s, q + 1) \notin Digit)

\* the text of the marker that starts at p: up to the last digit of its
\* number
MarkerText(s, p) == SubSeq(s, p, LastDigit(s, FirstDigit(s, p)))

StartsWith(s, prefix) ==
    Len(prefix) <= Len(s) /\ SubSeq(s, 1, Len(prefix)) = prefix

MinOrZero(S) == IF S = {} THEN 0 ELSE Min(S)

\* the first place from position from on where sub stands in s, or 0
FirstIndex(s, sub, from) ==
    MinOrZero({p \in from..(Len(s) - Len(sub) + 1) :
                  SubSeq(s, p, p + Len(sub) - 1) = sub})

Contains(s, sub) == FirstIndex(s, sub, 1) # 0

SpansBetween(breaks) ==
    {<<x[1] + 1, x[2] - 1>> :
        x \in {y \in breaks \X breaks :
                  /\ y[1] < y[2]
                  /\ \A b \in breaks : ~(y[1] < b /\ b < y[2])}}

\* the lines of s: <<first, last>> of each, the line break left out
LineSpans(s) ==
    SpansBetween({0, Len(s) + 1} \cup {p \in 1..Len(s) : CharAt(s, p) = "\n"})

\* the lines of the block that start with the designation and a colon
RoleLines(block, desig) ==
    {sp \in LineSpans(block) :
        StartsWith(SubSeq(block, sp[1], sp[2]), desig \o ":")}

\* the value a record holds under a key
Value(rec, key) == DictGet(rec, key, NaN)

\* the number of items of a record with this key
Count(rec, key) == Cardinality({j \in 1..Len(rec) : rec[j][1] = key})

RoleKeys(desig) ==
    {desig \o " Name"} \cup
    {desig \o " " \o contact_types[c] : c \in 1..Len(contact_types)}

Roles == {designations[d] : d \in 1..Len(designations)}

Channels == {contact_types[c] : c \in 1..Len(contact_types)}

(***************************************************************************)
(* The properties.                                                         *)
(***************************************************************************)

\* C1: a text with N markers gives exactly N blocks, the j-th block
\* starting with the j-th marker of the text, also when only whitespace
\* follows a marker.
C1_OneBlockPerMarker ==
    pc # "split" =>
       /\ Len(paired_records) = Cardinality(MarkerStarts(data))
       /\ \A j \in 1..Len(paired_records) :
             StartsWith(paired_records[j],
                        MarkerText(data, Nth(MarkerStarts(data), j)))

\* C2: every record holds every field name of the catalogue and every role
\* key exactly once, a rule or channel without a match is stored as '',
\* and all records of one output have the same keys.
C2_UniformKeys ==
    pc = "done" =>
       \A r \in 1..Len(parsed_records) :
          LET rec   == parsed_records[r]
              block == paired_records[r]
          IN  /\ \A k \in 1..NRules :
                    /\ Count(rec, FieldNames[k]) = 1
                    /\ ~search(field_patterns[k].pattern, block, FALSE).found
                         => Value(rec, FieldNames[k]) = ""
              /\ \A desig \in Roles :
                    /\ \A key \in RoleKeys(desig) : Count(rec, key) = 1
                    /\ \A ch \in Channels :
                          ~HasKey(parse_agent_line(desig, block).contacts, ch)
                            => Value(rec, desig \o " " \o ch) = ""
              /\ Keys(rec) = Keys(parsed_records[1])

C2_Witness ==
    /\ pc = "done"
    /\ Len(parsed_records) >= 2
    /\ Value(parsed_records[1], "MLS#") = "2"
    /\ Value(parsed_records[2], "County") = ""
    /\ Value(parsed_records[2], "SA Fax") = ""

\* C3: a text without a marker, the empty text too, gives a DataFrame
\* without a row: no error is logged and a frame is returned.
C3_NoMarkerNoRecord ==
    (pc = "done" /\ MarkerStarts(data) = {}) =>
       /\ parsed_records = <<>>
       /\ df # NoFrame
       /\ df.rows = <<>>
       /\ log = <<>>

C3_Witness ==
    /\ pc = "done"
    /\ MarkerStarts(data) = {}
    /\ Contains(data, "MLS#")
    /\ df.rows = <<>>

\* C4: the fixture gives exactly one record, with MLS# 12345, List Price
\* 250,000, LO Name Jane Doe, LO Phone 555-1111, LO Email jane@x.com and
\* an empty LO Mobile.
C4_Fixture ==
    (pc = "done" /\ data = Fixture) =>
       /\ Len(df.rows) = 1
       /\ Cell(df, 1, "MLS#") = "12345"
       /\ Cell(df, 1, "List Price") = "250,000"
       /\ Cell(df, 1, "LO Name") = "Jane Doe"
       /\ Cell(df, 1, "LO Phone") = "555-1111"
       /\ Cell(df, 1, "LO Email") = "jane@x.com"
       /\ Cell(df, 1, "LO Mobile") = ""

C4_Witness ==
    /\ pc = "done"
    /\ data = Fixture
    /\ Len(df.rows) = 1
    /\ Cell(df, 1, "List Price") = "250,000"

C7_SecondCallSame ==
    (pc = "done" /\ call = "second") => df = first

\* the text between 'Public Remarks:' and the first line after it that
\* starts with 'Private Remarks:', trimmed
TextUpTo(block, from, q) ==
    [found |-> q # 0, text |-> IF q = 0 THEN "" ELSE strip(SubSeq(block, from, q - 1))]

TextAfter(block, p, label) ==
    IF p = 0 THEN [found |-> FALSE, text |-> ""]
    ELSE TextUpTo(block, p + Len(label),
                  FirstIndex(block, "\nPrivate Remarks:", p + Len(label)))

PublicRemarksText(block) ==
    TextAfter(block, FirstIndex(block, "Public Remarks:", 1), "Public Remarks:")

RemarksInFull(remarks, rec) ==
    (remarks.found /\ Contains(remarks.text, "\n"))
       => Value(rec, "Public Remarks") = remarks.text

\* C8: when 'Public Remarks:' is followed by text of several lines and
\* then a line that starts with 'Private Remarks:', the value of Public
\* Remarks is the whole text, its line breaks included.
C8_RemarksInFull ==
    pc = "done" =>
       \A r \in 1..Len(parsed_records) :
          RemarksInFull(PublicRemarksText(paired_records[r]), parsed_records[r])

C8_Witness ==
    /\ pc = "done"
    /\ Len(parsed_records) = 1
    /\ Contains(paired_records[1], "\nPrivate Remarks:")
    /\ Value(parsed_records[1], "Public Remarks") = "Nice\nhome"

\* the line is the only one of the role and has no parenthesis: the name
\* is what follows its colon, the channels are empty
LineIsName(line, desig, rec) ==
    ~Contains(line, "(")
       => /\ Value(rec, desig \o " Name")
               = strip(SubSeq(line, Len(desig) + 2, Len(line)))
          /\ \A ch \in Channels : Value(rec, desig \o " " \o ch) = ""

OneLineIsName(block, desig, rec, lines) ==
    Cardinality(lines) = 1
       => \A sp \in lines :
             LineIsName(SubSeq(block, sp[1], sp[2]), desig, rec)

\* C9: for every role, a block with one line of the role, without a
\* parenthesis in it, gives as the role's name what follows the colon on
\* that line, trimmed, and '' for each channel of the role.
C9_NameOnlyLine ==
    pc = "done" =>
       \A r \in 1..Len(parsed_records) : \A desig \in Roles :
          OneLineIsName(paired_records[r], desig, parsed_records[r],
                        RoleLines(paired_records[r], desig))

\* C10: for every role, a block without a line that starts with the
\* role's designation and a colon gives an empty name and an empty value
\* for every channel of the role, and no error.
C10_NoLineNoContact ==
    pc = "done" =>
       \A r \in 1..Len(parsed_records) : \A desig \in Roles :
          RoleLines(paired_records[r], desig) = {}
             => /\ \A key \in RoleKeys(desig) :
                      Value(parsed_records[r], key) = ""
                /\ log = <<>>

C10_Witness ==
    /\ pc = "done"
    /\ Len(parsed_records) = 1
    /\ RoleLines(paired_records[1], "LA") = {}
    /\ RoleLines(paired_records[1], "CO-LA") # {}
    /\ Value(parsed_records[1], "CO-LA Phone") = "5"
    /\ Value(parsed_records[1], "LA Name") = ""

\* C11: for every rule of the catalogue the colon and the tab are both
\* accepted between the label and the value: the record of 'Label:value'
\* holds under the rule's name what the rule extracts from
\* 'Label<tab>value', and the other way round.
C11_ColonOrTab ==
    pc = "done" =>
       \A k \in 1..NRules : \A v \in 1..Len(SampleValues) :
          \A d \in Delimiters : \A e \in Delimiters :
             data = RuleText(k, d, SampleValues[v])
                => \A r \in 1..Len(parsed_records) :
                      Value(parsed_records[r], FieldNames[k])
                         = FieldValue(field_patterns[k].pattern,
                                      RuleText(k, e, SampleValues[v]))

LowerCase == "abcdefghijklmnopqrstuvwxyz"

UpperCase == "ABCDEFGHIJKLMNOPQRSTUVWXYZ"

\* the character c with the letters of the alphabet from replaced by
\* those of the alphabet to
Recase(c, from, to) ==
    IF \E n \in 1..Len(from) : CharAt(from, n) = c
    THEN CharAt(to, CHOOSE n \in 1..Len(from) : CharAt(from, n) = c)
    ELSE c

RECURSIVE RecaseAll(_, _, _)
RecaseAll(s, from, to) ==
    IF s = "" THEN ""
    ELSE Recase(CharAt(s, 1), from, to)
           \o RecaseAll(SubSeq(s, 2, Len(s)), from, to)

\* a channel as it may be written between the parentheses: in its own,
\* in lower or in upper case, or with spaces around it
Written(ch) ==
    {ch, RecaseAll(ch, UpperCase, LowerCase),
     RecaseAll(ch, LowerCase, UpperCase), " " \o ch \o " "}

\* s without the colon it may begin with
SkipColon(s) == IF StartsWith(s, ":") THEN SubSeq(s, 2, Len(s)) ELSE s

UpTo(line, from, q) ==
    SubSeq(line, from, IF q = 0 THEN Len(line) ELSE q - 1)

\* the value of the group that ends before position from of the line: what
\* follows it, after a colon or none, up to the next '(' or the end of the
\* line, trimmed
AfterGroup(line, from) ==
    strip(SkipColon(strip(UpTo(line, from, FirstIndex(line, "(", from)))))

\* the places of the line where sub stands
Places(line, sub) ==
    {p \in 1..(Len(line) - Len(sub) + 1) :
        SubSeq(line, p, p + Len(sub) - 1) = sub}

\* the only group of the line is '(w)', w a way of writing ch: the key of
\* ch holds the value of the group
OnlyGroupStored(line, desig, rec, ch, w) ==
    (Cardinality(Places(line, "(")) = 1 /\ Contains(line, "(" \o w \o ")"))
       => Value(rec, desig \o " " \o ch)
            = AfterGroup(line, FirstIndex(line, ")", 1) + 1)

OneLineStored(block, desig, rec, lines) ==
    Cardinality(lines) = 1
       => \A sp \in lines : \A ch \in Channels : \A w \in Written(ch) :
             OnlyGroupStored(SubSeq(block, sp[1], sp[2]), desig, rec, ch, w)

\* C12: a channel of the fixed set written in another letter case or with
\* spaces inside the parentheses ('(phone)', '(PHONE)', '( Phone )') has
\* its value stored under the key of the role for that channel, as
\* '(Phone)' has.
C12_ChannelAnyCase ==
    pc = "done" =>
       \A r \in 1..Len(parsed_records) : \A desig \in Roles :
          OneLineStored(paired_records[r], desig, parsed_records[r],
                        RoleLines(paired_records[r], desig))

\* the keys of the roles: for each role in the order of the designations
\* its name and then its channels
RoleColumns ==
    [n \in 1..(Len(designations) * (Len(contact_types) + 1)) |->
        designations[((n - 1) \div (Len(contact_types) + 1)) + 1] \o " " \o
           (IF (n - 1) % (Len(contact_types) + 1) = 0 THEN "Name"
            ELSE contact_types[(n - 1) % (Len(contact_types) + 1)])]

\* C13: whenever the output has a record, the columns of the table are
\* 'Created on', 'Format', the names of the catalogue in its declared
\* order, then Name, Phone, Mobile, Office, Email, Fax of each role in
\* the order LO, LA, CO-LA, SO, SA, CO-SA, whatever matched in the blocks.
C13_ColumnOrder ==
    (pc = "done" /\ parsed_records # <<>>) =>
       /\ df.columns = <<"Created on", "Format">> \o FieldNames \o RoleColumns
       /\ designations = <<"LO", "LA", "CO-LA", "SO", "SA", "CO-SA">>
       /\ contact_types = <<"Phone", "Mobile", "Office", "Email", "Fax">>

C13_Witness ==
    /\ pc = "done"
    /\ Len(df.rows) = 2
    /\ df.columns[3] = "MLS#"
    /\ df.columns[Len(df.columns)] = "CO-SA Fax"

\* other orders of the rules: the last rule first, every rule one place
\* earlier and the first rule last, every two neighbours exchanged
Reversed == [n \in 1..NRules |-> NRules + 1 - n]

Rotated == [n \in 1..NRules |-> (n % NRules) + 1]

Exchanged ==
    [n \in 1..NRules |->
        IF n % 2 = 0 THEN n - 1 ELSE IF n < NRules THEN n + 1 ELSE n]

Orders == {Reversed, Rotated, Exchanged}

\* a dict as a mapping: the set of its items
Items(dict) == {dict[j] : j \in 1..Len(dict)}

\* the items of a record under the names of the catalogue
FieldItems(rec) ==
    {item \in Items(rec) : \E k \in 1..NRules : FieldNames[k] = item[1]}

\* C14: the order in which the rules of the catalogue are evaluated on a
\* block does not change the mapping from field name to value: the rules
\* taken in another order give the items of the record.
C14_OrderFree ==
    pc = "done" =>
       \A r \in 1..Len(parsed_records) : \A order \in Orders :
          Items(ExtractFieldsIn(order, paired_records[r], <<>>))
             = FieldItems(parsed_records[r])

C14_Witness ==
    /\ pc = "done"
    /\ Len(parsed_records) = 1
    /\ Value(parsed_records[1], "Public Remarks") = "Nice\nhome"
    /\ Value(parsed_records[1], "Private Remarks") = "call"
    /\ Value(parsed_records[1], "MLS#") = "1"

\* the cells of a row as it was are the last cells of the row as it is:
\* what stands before them are the cells of the columns put in front
KeptIn(was, is) ==
    /\ Len(is) >= Len(was)
    /\ SubSeq(is, Len(is) - Len(was) + 1, Len(is)) = was

\* the row holds, under every header that is a column of the frame, the
\* cell of the frame's row r
RowOf(frame, r, headers, row) ==
    /\ Len(row) = Len(headers)
    /\ \A c \in 1..Len(headers) :
          IsIn(frame.columns, headers[c])
             => row[c] = Cell(frame, r, headers[c])

\* C15: append_to_google_sheet appends without overwriting: every row the
\* worksheet had is still at its place with its cell values as they were
\* (behind the cells of the columns 'Created on' and 'Format' where the
\* call had to put these in front), the rows of the frame are the rows
\* after the last row the worksheet had, and an empty frame leaves the
\* worksheet as it was.
C15_AppendOnly ==
    pc = "appended" =>
       IF empty(df) THEN worksheet = existing
       ELSE /\ Len(worksheet) >= Len(existing) + Len(df.rows)
            /\ \A j \in 1..Len(existing) : KeptIn(existing[j], worksheet[j])
            /\ \A r \in 1..Len(df.rows) :
                  RowOf(df, r, worksheet[1],
                        worksheet[Len(worksheet) - Len(df.rows) + r])

C15_Witness ==
    /\ pc = "appended"
    /\ Len(df.rows) = 2
    /\ Len(existing) = 3
    /\ Len(worksheet) = 5
    /\ worksheet[1] = <<"Created on", "Format", "MLS#", "County">>
    /\ worksheet[5][3] = "2"

\* s without the whitespace it begins with
LeftStrip(s) ==
    SubSeq(s, Min({p \in 1..Len(s) : CharAt(s, p) \notin Whitespace}
                  \cup {Len(s) + 1}),
           Len(s))

\* what a line of a role holds after the designation and the colon
Content(block, desig, sp) ==
    LeftStrip(SubSeq(block, sp[1] + Len(desig) + 1, sp[2]))

\* the contents of the lines, the first line first, with one space between
\* two of them
RECURSIVE JoinLines(_, _, _)
JoinFirst(block, desig, lines, sp) ==
    Content(block, desig, sp)
      \o (IF lines = {sp} THEN ""
          ELSE " " \o JoinLines(block, desig, lines \ {sp}))

JoinLines(block, desig, lines) ==
    IF lines = {} THEN ""
    ELSE JoinFirst(block, desig, lines,
                   CHOOSE sp \in lines : \A other \in lines : sp[1] <= other[1])

\* the record holds for the role what the agent holds
HoldsAgent(rec, desig, agent) ==
    /\ Value(rec, desig \o " Name") = agent.name
    /\ \A ch \in Channels :
          Value(rec, desig \o " " \o ch) = DictGet(agent.contacts, ch, "")

JoinedIsParsed(block, desig, rec, lines) ==
    Cardinality(lines) >= 2
       => HoldsAgent(rec, desig, AgentOfLine(strip(JoinLines(block, desig, lines))))

\* C16: when the designation of a role stands on several lines of a
\* block, the name and the contacts of the role are parsed from the
\* contents of all these lines, joined by single spaces in their order.
C16_LinesJoined ==
    pc = "done" =>
       \A r \in 1..Len(parsed_records) : \A desig \in Roles :
          JoinedIsParsed(paired_records[r], desig, parsed_records[r],
                         RoleLines(paired_records[r], desig))

\* the name is the part of the concatenated line before its first '(',
\* trimmed
NameOfLine(line, name) ==
    /\ name = strip(UpTo(line, 1, FirstIndex(line, "(", 1)))
    /\ ~Contains(line, "(") => name = line
    /\ StartsWith(line, "(") => name = ""

NameOfMatches(matches, block, name) ==
    matches # <<>> => NameOfLine(strip(JoinGroups(matches, block)), name)

\* C17: the name of a role is the text of its concatenated line before the
\* first opening parenthesis, trimmed: the whole line when it has no
\* parenthesis, the empty string when it begins with one.
C17_NameBeforeParen ==
    pc = "done" =>
       \A r \in 1..Len(parsed_records) : \A desig \in Roles :
          NameOfMatches(Matches(AgentLinePattern(desig), paired_records[r],
                                1, TRUE),
                        paired_records[r],
                        Value(parsed_records[r], desig \o " Name"))

C17_Witness ==
    /\ pc = "done"
    /\ Len(parsed_records) = 1
    /\ Contains(paired_records[1], "\nSO: (Phone): 5")
    /\ Value(parsed_records[1], "SO Name") = ""
    /\ Value(parsed_records[1], "SO Phone") = "5"

\* the group '(ch)' stands once in the line, at p: the key of the channel
\* holds what follows the group
GroupAt(line, desig, rec, ch, p) ==
    Value(rec, desig \o " " \o ch) = AfterGroup(line, p + Len(ch) + 2)

GroupsStored(line, desig, rec) ==
    \A ch \in Channels :
       Cardinality(Places(line, "(" \o ch)) = 1
          => \A p \in Places(line, "(" \o ch \o ")") :
                GroupAt(line, desig, rec, ch, p)

OneLineGroups(block, desig, rec, lines) ==
    Cardinality(lines) = 1
       => \A sp \in lines :
             GroupsStored(SubSeq(block, sp[1], sp[2]), desig, rec)

\* C18: every group '(channel)' of the contacts segment, with a colon
\* after it or none, gives the channel the text that follows up to the
\* next '(' or the end of the segment, trimmed, '' when nothing follows,
\* also when that text holds a closing parenthesis.
C18_GroupValues ==
    pc = "done" =>
       \A r \in 1..Len(parsed_records) : \A desig \in Roles :
          OneLineGroups(paired_records[r], desig, parsed_records[r],
                        RoleLines(paired_records[r], desig))

\* the labels known to the extractor: the names of the catalogue and the
\* designations of the roles
KnownLabels == {FieldNames[k] : k \in 1..NRules} \cup Roles

FreeTextFields == {"Public Remarks", "Private Remarks"}

\* the value holds no line that begins with a known label and a colon
NoLabelLine(value) ==
    \A label \in KnownLabels : ~Contains(value, "\n" \o label \o ":")

\* the label of the field stands at p of the block, text follows it on
\* its line and a line with a known label comes after it
TextFollows(block, field, p) ==
    /\ p # 0
    /\ \E label \in KnownLabels :
          FirstIndex(block, "\n" \o label \o ":", p) # 0
    /\ strip(UpTo(block, p + Len(field) + 1,
                  FirstIndex(block, "\n", p + Len(field) + 1))) # ""

FreeTextBounded(block, rec, field) ==
    /\ NoLabelLine(Value(rec, field))
    /\ TextFollows(block, field, FirstIndex(block, field \o ":", 1))
         => Value(rec, field) # ""

\* C19: a free-text field (Public Remarks, Private Remarks) ends at the
\* next known label that follows it in the block: its value holds no later
\* label of the catalogue and no agent line, and it is not empty when text
\* follows its label, whichever label comes next.
C19_FreeTextBounded ==
    pc = "done" =>
       \A r \in 1..Len(parsed_records) : \A field \in FreeTextFields :
          FreeTextBounded(paired_records[r], parsed_records[r], field)

\* the text after the marker at p up to the next marker or the end holds
\* more than whitespace
HasContent(s, p, starts) ==
    strip(SubSeq(s, LastDigit(s, FirstDigit(s, p)) + 1,
                 Min({q \in starts : q > p} \cup {Len(s) + 1}) - 1)) # ""

\* the markers of the text that start a block
BlockMarkers(s) == {p \in MarkerStarts(s) : HasContent(s, p, MarkerStarts(s))}

\* the digits of the marker at p
MarkerDigits(s, p) ==
    SubSeq(s, FirstDigit(s, p), LastDigit(s, FirstDigit(s, p)))

DigitsOnly(s) == s # "" /\ \A n \in 1..Len(s) : CharAt(s, n) \in Digit

\* C20: a marker is recognised whatever whitespace, or none, stands
\* between 'MLS#' and its digits, and the 'MLS#' value of the i-th record
\* is the digit string of the marker that starts the i-th block: never
\* empty, digits only.
C20_MarkerDigits ==
    pc = "done" =>
       /\ Len(parsed_records) = Cardinality(BlockMarkers(data))
       /\ \A r \in 1..Len(parsed_records) :
             /\ Value(parsed_records[r], "MLS#")
                  = MarkerDigits(data, Nth(BlockMarkers(data), r))
             /\ DigitsOnly(Value(parsed_records[r], "MLS#"))
             /\ StartsWith(paired_records[r],
                           MarkerText(data, Nth(BlockMarkers(data), r)))

C20_Witness ==
    /\ pc = "done"
    /\ Contains(data, "MLS#\t7")
    /\ Contains(data, "MLS# \t8")
    /\ Len(parsed_records) = 2
    /\ Value(parsed_records[1], "MLS#") = "7"
    /\ Value(parsed_records[2], "MLS#") = "8"

\* C21: every block the splitter builds holds exactly one MLS identifier
\* token ('MLS#' and digits), the one it begins with: never none, never
\* two.
C21_OneMarkerPerBlock ==
    pc # "split" =>
       \A j \in 1..Len(paired_records) :
          /\ Cardinality(MarkerStarts(paired_records[j])) = 1
          /\ MarkerAt(paired_records[j], 1)

C21_Witness ==
    /\ pc = "done"
    /\ Len(paired_records) = 2
    /\ Contains(data, "MLS# \t7")
    /\ Contains(data, "\nMLS#8")

\* the blocks of the text without its first k characters are the blocks
\* of the text; the records are made from the blocks one by one
SameWithout(k) == paired(SubSeq(data, k + 1, Len(data))) = paired_records

\* the last place of the text before its first marker
LeadEnd(s) == Min(MarkerStarts(s) \cup {Len(s) + 1}) - 1

\* C22 as stated: the text is any text without a marker put before a
\* document, and the document alone gives the same record sequence.
C22_PrependAnything ==
    pc = "done" =>
       \A k \in 0..Len(data) :
          MarkerStarts(SubSeq(data, 1, k)) = {} => SameWithout(k)

\* C22: the text before the first marker is discarded: it is part of no
\* block and gives no value, so text put before a document leaves the
\* record sequence as it was when the first marker of the result is the
\* first marker of the document.
C22_LeadingDiscarded ==
    pc = "done" => \A k \in 0..LeadEnd(data) : SameWithout(k)

C22_Witness ==
    /\ pc = "done"
    /\ StartsWith(data, "x MLS#2 y")
    /\ Len(parsed_records) = 1
    /\ paired_records[1] = "MLS#2\ny"

\* the record of a block
RecordOf(block) == ExtractAgents(block, ExtractFields(block, <<>>))

\* row r of the frame holds the items of the record
RowHolds(frame, r, rec) ==
    \A n \in 1..Len(rec) :
       /\ IsIn(frame.columns, rec[n][1])
       /\ Cell(frame, r, rec[n][1]) = rec[n][2]

IsTrimmed(value) ==
    value = "" \/ /\ CharAt(value, 1) \notin Whitespace
                  /\ CharAt(value, Len(value)) \notin Whitespace

\* C24: every value stored in a record (simple field, role name, contact
\* channel) is trimmed: it has no whitespace at its beginning or end.
C24_ValuesTrimmed ==
    \A r \in 1..Len(parsed_records) : \A n \in 1..Len(parsed_records[r]) :
       IsTrimmed(parsed_records[r][n][2])

C24_Witness ==
    /\ pc = "done"
    /\ Len(parsed_records) = 1
    /\ Contains(paired_records[1], "SA: Al (Phone:) 5 (Fax)")
    /\ Value(parsed_records[1], "SA Phone") = "5"
    /\ Value(parsed_records[1], "SA Fax") = ""

\* every value of the role stands in the contents of the role's own lines
FromOwnLines(rec, desig, own) ==
    \A key \in RoleKeys(desig) : Contains(own, Value(rec, key))

\* C25: the name and the channel values of a role come only from the
\* lines of the block that start with the role's own designation and a
\* colon: not from a line of another role, not from the line after a line
\* of the role that is empty after its colon.
C25_OwnLinesOnly ==
    pc = "done" =>
       \A r \in 1..Len(parsed_records) : \A desig \in Roles :
          FromOwnLines(parsed_records[r], desig,
                       JoinLines(paired_records[r], desig,
                                 RoleLines(paired_records[r], desig)))

\* the label the rule of a field looks for
RuleLabel(k) == IF FieldNames[k] = "Address" THEN "DOM/CDOM" ELSE FieldNames[k]

\* the label of rule k stands once in the block, with a line break directly
\* after its delimiter
EmptyOnItsLine(block, k) ==
    /\ Cardinality(Places(block, RuleLabel(k))) = 1
    /\ \E d \in Delimiters : Contains(block, RuleLabel(k) \o d \o "\n")

\* C26: a single-capture rule takes its value from the line of its label:
\* when the label and its delimiter are followed directly by a line break,
\* the stored value is the empty string, never the text of the next line.
C26_EmptyStaysEmpty ==
    pc = "done" =>
       \A r \in 1..Len(parsed_records) : \A k \in SingleCapture :
          \/ Value(parsed_records[r], FieldNames[k]) = ""
          \/ ~EmptyOnItsLine(paired_records[r], k)

\* the places of the block where the label 'List Price' stands on its own:
\* not as the end of 'Original List Price', and with a delimiter after it
OwnPlaces(block) ==
    {p \in Places(block, "List Price") :
        /\ ~(p > 9 /\ SubSeq(block, p - 9, p - 1) = "Original ")
        /\ p + 10 <= Len(block)
        /\ CharAt(block, p + 10) \in Delimiters}

\* the text of the block from position from on, behind the delimiters and
\* the currency sign
AfterLabel(block, from) ==
    SubSeq(block,
           Min({q \in from..(Len(block) + 1) :
                   q = Len(block) + 1 \/ CharAt(block, q) \notin {":", "\t", "$"}}),
           Len(block))

\* C27: a simple rule takes its value from an occurrence of its own label,
\* never from a longer label that ends with it: the 'List Price' value of
\* a block is empty or stands behind a label 'List Price' that is not the
\* end of 'Original List Price'.
C27_OwnLabel ==
    pc = "done" =>
       \A r \in 1..Len(parsed_records) :
          \/ Value(parsed_records[r], "List Price") = ""
          \/ \E p \in OwnPlaces(paired_records[r]) :
                StartsWith(AfterLabel(paired_records[r], p + 10),
                           Value(parsed_records[r], "List Price"))

\* the matches of the contacts pattern whose label is the channel
Hits(ms, part, ch) == {j \in 1..Len(ms) : strip(group(ms[j], part, 1)) = ch}

\* the segment from its first '(' on
FromParen(seg) ==
    IF Contains(seg, "(")
    THEN strip(SubSeq(seg, FirstIndex(seg, "(", 1), Len(seg))) ELSE ""

\* the part of a line before its first '(', trimmed
NamePart(line) == strip(UpTo(line, 1, FirstIndex(line, "(", 1)))

\* a channel that stands more than once holds the value of its last
\* occurrence
LastStored(ms, part, rec, desig, ch) ==
    Cardinality(Hits(ms, part, ch)) >= 2
       => Value(rec, desig \o " " \o ch)
            = strip(group(ms[Max(Hits(ms, part, ch))], part, 2))

\* where a channel stands more than once, the last occurrence is stored
\* and the name of the role is name
RepeatedIn(ms, part, rec, desig, name) ==
    /\ \A ch \in Channels : LastStored(ms, part, rec, desig, ch)
    /\ (\E ch \in Channels : Cardinality(Hits(ms, part, ch)) >= 2)
          => Value(rec, desig \o " Name") = name

Repeated(part, rec, desig, name) ==
    RepeatedIn(Matches(ContactPattern, part, 1, FALSE), part, rec, desig, name)

NameOfFirstLine(matches, block, rec, desig) ==
    matches # <<>>
       => Repeated(FromParen(strip(JoinGroups(matches, block))), rec, desig,
                   NamePart(strip(group(matches[1], block, 1))))

NameOfSegment(matches, block, rec, desig) ==
    matches # <<>>
       => Repeated(FromParen(strip(JoinGroups(matches, block))), rec, desig,
                   NamePart(strip(JoinGroups(matches, block))))

\* C28 as stated: when a channel label stands more than once in the
\* concatenated contacts segment of a role, the channel holds the value of
\* the last occurrence and the name is the name part of the first line
\* only.
C28_NameOfFirstLine ==
    pc = "done" =>
       \A r \in 1..Len(parsed_records) : \A desig \in Roles :
          NameOfFirstLine(Matches(AgentLinePattern(desig), paired_records[r],
                                  1, TRUE),
                          paired_records[r], parsed_records[r], desig)

\* C28: when a channel label stands more than once in the concatenated
\* contacts segment of a role, the channel holds the value of the last
\* occurrence, and the name of the role is the text of the concatenated
\* segment before its first parenthesis: the name part of the first line
\* only when the first line carries a parenthesis.
C28_LastWins ==
    pc = "done" =>
       \A r \in 1..Len(parsed_records) : \A desig \in Roles :
          NameOfSegment(Matches(AgentLinePattern(desig), paired_records[r],
                                1, TRUE),
                        paired_records[r], parsed_records[r], desig)

C28_Witness ==
    /\ pc = "done"
    /\ Len(parsed_records) = 1
    /\ Contains(paired_records[1], "\nLO: Al (Phone): 5\nLO: Bob (Phone): 6")
    /\ Value(parsed_records[1], "LO Phone") = "6"
    /\ Value(parsed_records[1], "LO Name") = "Al"

\* the names of the output steps main has run, in their order
StepNames == [n \in 1..Len(steps) |-> steps[n].step]

OutputSteps == <<"save", "append", "download">>

\* C29: main runs the three output steps in the order save to Drive,
\* append to Sheet, download, and only when the file content and the
\* parsed table are not empty; a failure inside a step is caught by the
\* step and the later steps run all the same.
C29_OutputSteps ==
    /\ StepNames = SubSeq(OutputSteps, 1, Len(steps))
    /\ steps # <<>> => (data # "" /\ ~empty(df))
    /\ pc = "exit"
          => StepNames = IF data # "" /\ ~empty(df) THEN OutputSteps ELSE <<>>

C29_Witness ==
    /\ pc = "exit"
    /\ Len(steps) = 3
    /\ ~steps[1].ok
    /\ ~steps[2].ok
    /\ steps[3].ok
    /\ worksheet # NotOpened

\* the number of calls of the API made for the row
Sent(row) == Len(answers[row])

\* C30: in the skip trace main loop every row is sent to the API once in
\* the first pass, a second time exactly when its first call returned no
\* result, and never more than twice; when main has ended a row is marked
\* 'Success' exactly when one of its calls returned a result that was
\* appended to results, results has as many entries as there are rows
\* marked 'Success', and a row whose retry failed too is marked 'Error'.
C30_RetryOnce ==
    /\ \A row \in 1..total_records : Sent(row) <= 2
    /\ spc \in {"end", "failed"} =>
          /\ \A row \in 1..total_records :
                /\ Sent(row) >= 1
                /\ Sent(row) = 2 <=> (Sent(row) >= 1 /\ answers[row][1] = "None")
                /\ API_Response[row] = "Success"
                      <=> /\ \E k \in 1..Sent(row) : answers[row][k] = "result"
                          /\ \E n \in 1..Len(results) : results[n] = row
                /\ (Sent(row) = 2 /\ answers[row][2] # "result")
                      => API_Response[row] = "Error"
          /\ Len(results)
               = Cardinality({row \in 1..total_records :
                                 API_Response[row] = "Success"})

\* the same of the runs over a spreadsheet with a 'Property Address'
RetryOnceWhenCombined == combined => C30_RetryOnce

=============================================================================
